---- MODULE Spec2Model ----
(***************************************************************************)
(* A model of redep2p: the tracker ("edge", src/edge.py), the JSON message *)
(* channel (src/proto.py) and the peer's failover download (src/peer.py).  *)
(***************************************************************************)
EXTENDS Integers, Sequences, FiniteSets, TLC

(***************************************************************************)
(* Part 1 - the tracker (src/edge.py)                                      *)
(***************************************************************************)

\* Socket peer addresses the tracker sees (cli[0]) and download ports that
\* heartbeat messages carry.
Hosts == {"10.0.0.1", "10.0.0.2"}
Ports == {7001, 7002}

\* File names peers report; QueryNames adds a name nobody ever reports.
Files == {"a.txt", "b"}
QueryNames == Files \cup {"ghost.bin"}

\* Values of the heartbeat's "checksums" field (opaque to the tracker).
Checksums == {"ck1", "ck2"}

\* Handler threads of the tracker (one per accepted connection).
Workers == {"w1", "w2"}

\* self.timeout, in clock ticks.
Timeout == 1

\* Ages above SatAge are indistinguishable to the janitor's comparison.
SatAge == Timeout + 1

NoFn == [x \in {} |-> {}]

\* Values of a handler thread's locals while the function owning them is
\* not running.
NoHeartbeat == [cli |-> "", port |-> 0, files |-> {}]
NoQuery == [filename |-> "", holders |-> {}]

VARIABLES
  files_index,      \* self.files_index: filename -> set of peer_str (keys as in the dict)
  peers_last_seen,  \* self.peers_last_seen: peer_str -> age of its timestamp (now - t), saturating at SatAge
  peer_checksums,   \* self.peer_checksums: peer_str -> checksums of its latest heartbeat
  catalog_txt,      \* the file catalog.txt: extension -> set of names written under it
  lock,             \* CATALOG_LOCK: "free" or the thread holding it
  pc,               \* per handler thread: where it is in _handle_client
  hb,               \* per handler thread: `cli[0]`, port and files of a running _handle_heartbeat
  groups,           \* per handler thread: the local `groups` of a running _write_catalog
  query,            \* per handler thread: `fname` and `holders` of a running _handle_query
  quiet             \* peer ids whose peer process has stopped (Peer.running = False)

trackerVars == <<files_index, peers_last_seen, peer_checksums, catalog_txt,
                 lock, pc, hb, groups, query, quiet>>

\* The message channel (Part 2).
VARIABLES
  ch_sent,      \* the messages written with send_json, in order
  ch_wire,      \* bytes written to the socket and not yet read
  ch_closed,    \* the sender has closed the connection
  ch_received   \* what the successive recv_json calls returned or raised

chanVars == <<ch_sent, ch_wire, ch_closed, ch_received>>

\* One invocation of Peer.download (Part 3).
VARIABLES
  dl_pc,        \* where download is: "start", "loop", "body", "done", "raised"
  dl_holders,   \* holders: the shuffled list
  dl_i,         \* position of the for loop in holders
  dl_tried,     \* the holders gone through so far, each with the reply it gave and how its attempt ended
  dl_size,      \* size: what the last FILE_INFO declared
  dl_received,  \* received
  dl_dest,      \* contents of the destination file, each byte marked with the holder it came from
  dl_out        \* what download has printed

dlVars == <<dl_pc, dl_holders, dl_i, dl_tried, dl_size, dl_received, dl_dest, dl_out>>

\* What the tracker recorded as this peer's peer_str when it merged the
\* heartbeat that download sends first (Part 3).
VARIABLE dl_seen_as

\* One connection of the peer's download server, and the file of the share
\* folder it is asked for (Part 4).
VARIABLES
  get_pc,      \* where _handle_get is: "accept", "body", "closed", "raised"
  get_reply,   \* the message _handle_get has sent: "", "ERROR" or "FILE_INFO"
  get_size,    \* size: what FILE_INFO declared
  get_sent,    \* raw bytes written to the connection, which is also the read position in the file
  sh_exists,   \* the file exists in the share folder
  sh_len,      \* its length
  sh_writing   \* a download of this peer has the file open for writing

getVars == <<get_pc, get_reply, get_size, get_sent, sh_exists, sh_len, sh_writing>>

\* The first lines of download as the tracker sees them (Part 5): where
\* download is ("start", "heartbeat_sent", "heartbeat_failed", "query_sent"),
\* whether its heartbeat was sent, the files that heartbeat lists and the
\* file name of its QUERY.
VARIABLE dq

\* The files listed in the latest heartbeat the peer of Part 4 has built.
VARIABLE sent_files

vars == <<trackerVars, chanVars, dlVars, dl_seen_as, getVars, dq, sent_files>>

\* What the tracker's steps leave alone, what the channel's do, and what
\* the download's do.
notTracker == <<chanVars, dlVars, dl_seen_as, getVars, dq, sent_files>>
notChan == <<trackerVars, dlVars, dl_seen_as, getVars, dq, sent_files>>
notDl == <<trackerVars, chanVars, dl_seen_as, getVars, dq, sent_files>>
notGet == <<trackerVars, chanVars, dlVars, dl_seen_as, dq, sent_files>>
notDq == <<trackerVars, chanVars, dlVars, dl_seen_as, getVars, sent_files>>
notSent == <<trackerVars, chanVars, dlVars, dl_seen_as, getVars, dq>>

\* f'{host}:{download_port}'
PeerStr(host, download_port) == <<host, download_port>>

PeerIds == Hosts \X Ports

\* os.path.splitext(fname)[1].lstrip('.').upper(), 'SEM_EXTENSÃO' when empty
Ext(fname) ==
  CASE fname = "a.txt" -> "TXT"
    [] fname = "ghost.bin" -> "BIN"
    [] OTHER -> "SEM_EXTENSAO"

\* The groups dict _write_catalog builds from the keys of files_index.
CatalogGroups(fi) ==
  [e \in {Ext(f) : f \in DOMAIN fi} |-> {f \in DOMAIN fi : Ext(f) = e}]

\* What _write_catalog writes: one section per extension that has files.
RenderCatalog(g) == [e \in {x \in DOMAIN g : g[x] # {}} |-> g[e]]

\* Names listed in catalog.txt.
CatalogNames(c) == UNION {c[e] : e \in DOMAIN c}

\* Mutant of Discard: the emptied entry is not deleted.
DiscardNoPrune(fi, fname, peer) == [fi EXCEPT ![fname] = @ \ {peer}]

\* holders.discard(peer); if not holders: del self.files_index[fname]
Discard(fi, fname, peer) ==
  IF fi[fname] \ {peer} = {}
  THEN [f \in DOMAIN fi \ {fname} |-> fi[f]]
  ELSE [fi EXCEPT ![fname] = @ \ {peer}]

\* The loop over list(self.files_index.items()) restricted to the names in
\* which the peer is removed.
RECURSIVE DiscardFrom(_, _, _)
DiscardFrom(fi, names, peer) ==
  IF names = {} THEN fi
  ELSE LET fname == CHOOSE f \in names : TRUE
       IN  DiscardFrom(Discard(fi, fname, peer), names \ {fname}, peer)

\* The variant of AddHolder in which the peer takes the entry over.
AddHolderReplace(fi, fname, peer) ==
  [f \in DOMAIN fi \cup {fname} |-> IF f = fname THEN {peer} ELSE fi[f]]

\* self.files_index[fname].add(peer_str) on a defaultdict(set)
AddHolder(fi, fname, peer) ==
  [f \in DOMAIN fi \cup {fname} |->
     IF f = fname
     THEN (IF f \in DOMAIN fi THEN fi[f] ELSE {}) \cup {peer}
     ELSE fi[f]]

RECURSIVE AddAll(_, _, _)
AddAll(fi, names, peer) ==
  IF names = {} THEN fi
  ELSE LET fname == CHOOSE f \in names : TRUE
       IN  AddAll(AddHolder(fi, fname, peer), names \ {fname}, peer)

\* Step 1 of the merge: names the peer is listed under but no longer reports.
StaleNames(fi, peer, files) ==
  {f \in DOMAIN fi : peer \in fi[f] /\ f \notin files}

\* Mutant of MergeHeartbeat: an additive union, step 1 left out.
MergeHeartbeatUnion(fi, peer, files) == AddAll(fi, files, peer)

\* Steps 1 and 2 of _handle_heartbeat's locked block.
MergeHeartbeat(fi, peer, files) ==
  AddAll(DiscardFrom(fi, StaleNames(fi, peer, files), peer), files, peer)

\* dict assignment d[k] = v
Put(d, k, v) == [x \in DOMAIN d \cup {k} |-> IF x = k THEN v ELSE d[x]]

\* del d[k]
Del(d, ks) == [x \in DOMAIN d \ ks |-> d[x]]

\* The HEARTBEAT messages a client can send; `host` is a field the tracker
\* does not read.
HeartbeatMsgs ==
  [type : {"HEARTBEAT"}, port : Ports, files : SUBSET Files,
   checksums : Checksums, host : Hosts]

QueryMsgs == [type : {"QUERY"}, filename : QueryNames]

\* Names under which a peer is listed as holder.
HeldBy(fi, peer) == {f \in DOMAIN fi : peer \in fi[f]}

TrackerInit ==
  /\ files_index = NoFn
  /\ peers_last_seen = NoFn
  /\ peer_checksums = NoFn
  /\ catalog_txt = NoFn
  /\ lock = "free"
  /\ pc = [w \in Workers |-> "idle"]
  /\ hb = [w \in Workers |-> NoHeartbeat]
  /\ groups = [w \in Workers |-> NoFn]
  /\ query = [w \in Workers |-> NoQuery]
  /\ quiet = {}

\* Mutant of HandleHeartbeat: the host is taken from the message.
HandleHeartbeatClaimedHost(w, cli_host, msg) ==
  LET peer_str == PeerStr(msg.host, msg.port) IN
  /\ pc[w] = "idle"
  /\ lock = "free"
  /\ peer_str \notin quiet
  /\ pc' = [pc EXCEPT ![w] = "write_catalog"]
  /\ peer_checksums' = Put(peer_checksums, peer_str, msg.checksums)
  /\ peers_last_seen' = Put(peers_last_seen, peer_str, 0)
  /\ files_index' = MergeHeartbeat(files_index, peer_str, msg.files)
  /\ hb' = [hb EXCEPT ![w] =
              [cli |-> cli_host, port |-> msg.port, files |-> msg.files]]
  /\ UNCHANGED <<catalog_txt, lock, groups, query, quiet>>
  /\ UNCHANGED notTracker

\* _handle_heartbeat up to the end of the locked block, on a connection
\* whose socket peer address has host cli_host.
HandleHeartbeat(w, cli_host, msg) ==
  LET peer_str == PeerStr(cli_host, msg.port) IN
  /\ pc[w] = "idle"
  /\ lock = "free"
  /\ peer_str \notin quiet
  /\ pc' = [pc EXCEPT ![w] = "write_catalog"]
  /\ peer_checksums' = Put(peer_checksums, peer_str, msg.checksums)
  /\ peers_last_seen' = Put(peers_last_seen, peer_str, 0)
  /\ files_index' = MergeHeartbeat(files_index, peer_str, msg.files)
  /\ hb' = [hb EXCEPT ![w] =
              [cli |-> cli_host, port |-> msg.port, files |-> msg.files]]
  /\ UNCHANGED <<catalog_txt, lock, groups, query, quiet>>
  /\ UNCHANGED notTracker

\* The print after the locked block, the last use of the heartbeat's
\* fields, and _write_catalog called from _handle_heartbeat (no lock held):
\* the loop over self.files_index that fills `groups`.
WriteCatalogRead(w) ==
  /\ pc[w] = "write_catalog"
  /\ hb' = [hb EXCEPT ![w] = NoHeartbeat]
  /\ groups' = [groups EXCEPT ![w] = CatalogGroups(files_index)]
  /\ pc' = [pc EXCEPT ![w] = "write_file"]
  /\ UNCHANGED <<files_index, peers_last_seen, peer_checksums, catalog_txt,
                 lock, query, quiet>>
  /\ UNCHANGED notTracker

\* ... and the open(path, 'w') block that writes the sections.
WriteCatalogFile(w) ==
  /\ pc[w] = "write_file"
  /\ catalog_txt' = RenderCatalog(groups[w])
  /\ groups' = [groups EXCEPT ![w] = NoFn]
  /\ pc' = [pc EXCEPT ![w] = "idle"]
  /\ UNCHANGED <<hb, files_index, peers_last_seen, peer_checksums, lock,
                 query, quiet>>
  /\ UNCHANGED notTracker

\* Mutant of IndexAfterGet: self.files_index[fname], which makes the
\* defaultdict insert an empty set for a missing key.
IndexAfterGetItem(fi, fname) ==
  [f \in DOMAIN fi \cup {fname} |-> IF f \in DOMAIN fi THEN fi[f] ELSE {}]

\* self.files_index.get(fname, []) : the dict after the lookup.
IndexAfterGet(fi, fname) == fi

\* list(self.files_index.get(fname, []))
Holders(fi, fname) == IF fname \in DOMAIN fi THEN fi[fname] ELSE {}

\* _handle_query: the locked lookup.
HandleQuery(w, msg) ==
  /\ pc[w] = "idle"
  /\ lock = "free"
  /\ files_index' = IndexAfterGet(files_index, msg.filename)
  /\ query' = [query EXCEPT ![w] =
                 [filename |-> msg.filename,
                  holders |-> Holders(files_index, msg.filename)]]
  /\ pc' = [pc EXCEPT ![w] = "send_reply"]
  /\ UNCHANGED <<hb, peers_last_seen, peer_checksums, catalog_txt, lock, groups, quiet>>
  /\ UNCHANGED notTracker

\* The message _handle_query sends.
QueryReply(w) == [type |-> "QUERY_REPLY", holders |-> query[w].holders]

\* ... and send_json(conn, {"type": "QUERY_REPLY", "holders": holders}),
\* after the lock is released.
SendQueryReply(w) ==
  /\ pc[w] = "send_reply"
  /\ query' = [query EXCEPT ![w] = NoQuery]
  /\ pc' = [pc EXCEPT ![w] = "idle"]
  /\ UNCHANGED <<hb, files_index, peers_last_seen, peer_checksums, catalog_txt,
                 lock, groups, quiet>>
  /\ UNCHANGED notTracker

\* The CATALOG branch of _handle_client: the lock is taken and the file is
\* sent line by line with conn.send while the lock is held.
CatalogBegin(w) ==
  /\ pc[w] = "idle"
  /\ lock = "free"
  /\ lock' = w
  /\ pc' = [pc EXCEPT ![w] = "catalog_send"]
  /\ UNCHANGED <<hb, files_index, peers_last_seen, peer_checksums, catalog_txt,
                 groups, query, quiet>>
  /\ UNCHANGED notTracker

\* The client has read every line (or the send failed): the with block is
\* left, the lock released and the connection closed.
CatalogEnd(w) ==
  /\ pc[w] = "catalog_send"
  /\ lock = w
  /\ lock' = "free"
  /\ pc' = [pc EXCEPT ![w] = "idle"]
  /\ UNCHANGED <<hb, files_index, peers_last_seen, peer_checksums, catalog_txt,
                 groups, query, quiet>>
  /\ UNCHANGED notTracker

\* Mutant of Dead: one dead peer per pass.
DeadOnePerPass(pls, timeout) ==
  LET d == {p \in DOMAIN pls : pls[p] > timeout}
  IN  IF d = {} THEN {} ELSE {CHOOSE p \in d : TRUE}

\* The variant of Dead in which a timestamp at the cutoff counts as old.
DeadAtCutoff(pls, timeout) == {p \in DOMAIN pls : pls[p] >= timeout}

\* dead = [p for p, t in self.peers_last_seen.items() if t < cutoff], with
\* cutoff = now - timeout: t < cutoff iff the age now - t exceeds timeout.
Dead(pls, timeout) == {p \in DOMAIN pls : pls[p] > timeout}

\* The variant of SweepIndex in which the holder sets are left as they are.
SweepIndexSkip(fi, dead) == fi

\* The janitor's loop over dead: every dead peer is discarded from every
\* holder set it is in.
RECURSIVE SweepIndex(_, _)
SweepIndex(fi, dead) ==
  IF dead = {} THEN fi
  ELSE LET peer == CHOOSE p \in dead : TRUE
       IN  SweepIndex(DiscardFrom(fi, HeldBy(fi, peer), peer), dead \ {peer})

\* The janitor's `changed` flag after the loop.
SweepChanged(fi, dead) == \E peer \in dead : HeldBy(fi, peer) # {}

\* One pass of _janitor's locked block.
JanitorSweep ==
  LET dead == Dead(peers_last_seen, Timeout) IN
  /\ lock = "free"
  /\ peers_last_seen' = Del(peers_last_seen, dead)
  /\ files_index' = SweepIndex(files_index, dead)
  /\ catalog_txt' = IF SweepChanged(files_index, dead)
                    THEN RenderCatalog(CatalogGroups(files_index'))
                    ELSE catalog_txt
  /\ UNCHANGED <<hb, peer_checksums, lock, pc, groups, query, quiet>>
  /\ UNCHANGED notTracker

\* _clear_catalog
ClearCatalog ==
  /\ lock = "free"
  /\ files_index' = NoFn
  /\ catalog_txt' = NoFn
  /\ UNCHANGED <<hb, peers_last_seen, peer_checksums, lock, pc, groups,
                 query, quiet>>
  /\ UNCHANGED notTracker

\* time.time() advances by one tick: every stored timestamp ages.
Tick ==
  /\ peers_last_seen' =
       [p \in DOMAIN peers_last_seen |->
          IF peers_last_seen[p] < SatAge THEN peers_last_seen[p] + 1 ELSE SatAge]
  /\ UNCHANGED <<hb, files_index, peer_checksums, catalog_txt, lock, pc, groups,
                 query, quiet>>
  /\ UNCHANGED notTracker

\* A peer process stops (quit in _cli_loop): no further heartbeat carries
\* its id.
PeerQuit(p) ==
  /\ p \notin quiet
  /\ quiet' = quiet \cup {p}
  /\ UNCHANGED <<hb, files_index, peers_last_seen, peer_checksums, catalog_txt,
                 lock, pc, groups, query>>
  /\ UNCHANGED notTracker

(***************************************************************************)
(* Part 2 - the message channel (src/proto.py)                             *)
(***************************************************************************)

\* Longest string field and most messages sent on the connection.
MaxStrLen == 2
MaxMsgs == 2

NL == "\n"
BSL == "\\"
QUOTE == "\""

\* The delimiter byte imported from names.
DELIM == NL

\* Characters of a message's string field: a plain one, the line feed and
\* the backslash.
Chars == {"n", NL, BSL}

Strs == UNION {[1..k -> Chars] : k \in 0..MaxStrLen}

\* The structured messages sent: one kind, one string field.
Messages == [type : {"QUERY"}, filename : Strs]

\* What recv_json returns at end-of-stream, and the error json.loads raises.
None == [type |-> "None", filename |-> <<>>]
JSONDecodeError == [type |-> "JSONDecodeError", filename |-> <<>>]

\* Mutant of EscapeChar: the line feed is written raw.
EscapeCharRawNewline(c) ==
  CASE c = QUOTE -> <<BSL, QUOTE>>
    [] c = BSL -> <<BSL, BSL>>
    [] OTHER -> <<c>>

\* json.dumps on one character of a string.
EscapeChar(c) ==
  CASE c = NL -> <<BSL, "n">>
    [] c = QUOTE -> <<BSL, QUOTE>>
    [] c = BSL -> <<BSL, BSL>>
    [] OTHER -> <<c>>

RECURSIVE EscapeStr(_)
EscapeStr(str) ==
  IF str = <<>> THEN <<>> ELSE EscapeChar(Head(str)) \o EscapeStr(Tail(str))

\* The bytes before the string field's value; the fixed words "type", the
\* kind and "filename" stand for their quoted spellings.
Header(type) == <<"{", "type", ":", type, ",", "filename", ":">>

\* json.dumps(obj).encode(ENCODING)
Dumps(obj) ==
  Header(obj.type) \o <<QUOTE>> \o EscapeStr(obj.filename) \o <<QUOTE, "}">>

\* The body of a JSON string: every backslash starts a known escape, and no
\* raw quote or line feed occurs.
RECURSIVE WellEscaped(_)
WellEscaped(body) ==
  IF body = <<>> THEN TRUE
  ELSE IF Head(body) = BSL
       THEN /\ Len(body) >= 2
            /\ body[2] \in {"n", BSL, QUOTE}
            /\ WellEscaped(SubSeq(body, 3, Len(body)))
       ELSE Head(body) \notin {QUOTE, NL} /\ WellEscaped(Tail(body))

RECURSIVE Unescape(_)
Unescape(body) ==
  IF body = <<>> THEN <<>>
  ELSE IF Head(body) = BSL
       THEN <<(IF body[2] = "n" THEN NL ELSE body[2])>>
              \o Unescape(SubSeq(body, 3, Len(body)))
       ELSE <<Head(body)>> \o Unescape(Tail(body))

\* json.loads(buf.decode(ENCODING))
Loads(buf) ==
  LET n == Len(buf)
      body == SubSeq(buf, 9, n - 2) IN
  IF /\ n >= 10
     /\ \E t \in {"QUERY"} : SubSeq(buf, 1, 7) = Header(t)
     /\ buf[8] = QUOTE /\ buf[n - 1] = QUOTE /\ buf[n] = "}"
     /\ WellEscaped(body)
  THEN [type |-> buf[4], filename |-> Unescape(body)]
  ELSE JSONDecodeError

\* Index of the first delimiter in the stream, 0 if there is none.
FirstDelim(wire) ==
  IF \E i \in 1..Len(wire) : wire[i] = DELIM
  THEN CHOOSE i \in 1..Len(wire) :
         wire[i] = DELIM /\ \A j \in 1..(i - 1) : wire[j] # DELIM
  ELSE 0

ChanIdle ==
  /\ ch_sent = <<>>
  /\ ch_wire = <<>>
  /\ ch_closed = FALSE
  /\ ch_received = <<>>

\* send_json(sock, obj)
SendJson(obj) ==
  /\ ~ch_closed
  /\ Len(ch_sent) < MaxMsgs
  /\ ch_wire' = ch_wire \o Dumps(obj) \o <<DELIM>>
  /\ ch_sent' = Append(ch_sent, obj)
  /\ UNCHANGED <<ch_closed, ch_received>>
  /\ UNCHANGED notChan

\* The sender closes the socket.
CloseSender ==
  /\ ~ch_closed
  /\ ch_closed' = TRUE
  /\ UNCHANGED <<ch_sent, ch_wire, ch_received>>
  /\ UNCHANGED notChan

\* What can have been written of a frame when the connection breaks in
\* sendall: the frames without their delimiter, and their prefixes.
CutFrames ==
  UNION {{SubSeq(Dumps(obj), 1, k) : k \in 0..Len(Dumps(obj))} : obj \in Messages}

\* The connection breaks while sendall is writing a frame: part of the frame
\* reaches the receiver, then end-of-stream.
SendCut(part) ==
  /\ ~ch_closed
  /\ Len(ch_sent) < MaxMsgs
  /\ ch_wire' = ch_wire \o part
  /\ ch_closed' = TRUE
  /\ UNCHANGED <<ch_sent, ch_received>>
  /\ UNCHANGED notChan

\* One call of recv_json, which blocks until a delimiter or end-of-stream
\* has arrived. A handler stops calling after "no message" or an error.
RecvJson ==
  /\ (FirstDelim(ch_wire) > 0 \/ ch_closed)
  /\ IF ch_received = <<>> THEN TRUE
     ELSE ch_received[Len(ch_received)] \notin {None, JSONDecodeError}
  /\ LET d == FirstDelim(ch_wire) IN
       IF d > 0
       THEN /\ ch_received' = Append(ch_received, Loads(SubSeq(ch_wire, 1, d - 1)))
            /\ ch_wire' = SubSeq(ch_wire, d + 1, Len(ch_wire))
       ELSE /\ ch_received' = Append(ch_received, None)
            /\ ch_wire' = <<>>
  /\ UNCHANGED <<ch_sent, ch_closed>>
  /\ UNCHANGED notChan

(***************************************************************************)
(* Part 3 - one invocation of Peer.download (src/peer.py)                  *)
(***************************************************************************)

\* Largest size a holder declares, and most bytes one recv call returns
\* (the code asks for up to BUF bytes; the holder decides how many it sends).
MaxSize == 2
MaxChunk == 2

\* f'{socket.gethostbyname(socket.gethostname())}:{self.my_port}'
SelfId == "10.0.0.1:6000"

\* An entry of the holder list that holder.split(':') / int(port_str) reject:
\* the tracker builds the entry from whatever "port" the heartbeat carried.
BadHolder == "10.0.0.2:None"

DlHolders == {SelfId, "10.0.0.2:6000", "10.0.0.3:6000", "10.0.0.4:6000", BadHolder}

\* host, port_str = holder.split(':'); port = int(port_str)
Parses(holder) == holder # BadHolder

\* reply['holders'] after random.shuffle: the tracker lists a set, so no
\* entry repeats, and every order can come out.
HolderLists ==
  {l \in UNION {[1..k -> DlHolders] : k \in 1..Cardinality(DlHolders)} :
     \A i, j \in DOMAIN l : i # j => l[i] # l[j]}

\* What the operator is told (the print calls of download).
EdgeUnreachable == "nao conectou ao edge"
InvalidReply == "resposta invalida do edge"
NotFound == "arquivo nao encontrado na rede"
SelfSkipped == "e o proprio peer"
NoReply == "sem resposta"
Gone == "nao tem mais o arquivo"
Unexpected == "resposta inesperada"
DownloadOk == "download ok"
Incomplete == "download incompleto"
ConnError == "erro conectando"
AllFailed == "nenhum holder conseguiu fornecer o arquivo"

\* How the exchange with one holder can go up to the reply to GET: the
\* connection or the wait for the reply raises OSError (refused, reset,
\* timeout), recv_json returns None (closed without replying), returns a
\* message, or raises on a payload that does not parse.
ReplyKinds == {"OSError", "None", "ERROR", "OTHER", "FILE_INFO"}
RaisingKinds == {"MALFORMED", "FILE_INFO_NO_SIZE"}

\* The report printed for a reply after which the loop continues.
ReportOf(kind) ==
  CASE kind = "OSError" -> ConnError
    [] kind = "None" -> NoReply
    [] kind = "ERROR" -> Gone
    [] kind = "OTHER" -> Unexpected

Copies(n, holder) == [j \in 1..n |-> holder]

\* open(dest, 'wb'): the destination file is created or truncated.
OpenAppend(dest) == dest
OpenWb(dest) == <<>>

\* if received == size: ... else: ...
Finish(received, size) == IF received = size THEN DownloadOk ELSE Incomplete

\* How the body transfer that has just ended is logged.
BodyEnd(received, size) ==
  IF received = size THEN "complete"
  ELSE IF received < size THEN "eof_short" ELSE "overshoot"

Range(s) == {s[k] : k \in DOMAIN s}

DlIdle ==
  /\ dl_pc = "start"
  /\ dl_holders = <<>>
  /\ dl_i = 1
  /\ dl_tried = <<>>
  /\ dl_size = 0
  /\ dl_received = 0
  /\ dl_dest = <<>>
  /\ dl_out = <<>>

\* The query phase ends the download: no connection to the tracker, a reply
\* that is no QUERY_REPLY, or an empty holder list; a reply that does not
\* parse raises out of download (only OSError is caught).
DlQueryFails(result) ==
  /\ dl_pc = "start"
  /\ IF result = "MALFORMED"
     THEN dl_pc' = "raised" /\ dl_out' = dl_out
     ELSE /\ dl_pc' = "done"
          /\ dl_out' = Append(dl_out,
               CASE result = "OSError" -> EdgeUnreachable
                 [] result = "INVALID" -> InvalidReply
                 [] result = "EMPTY" -> NotFound)
  /\ UNCHANGED <<dl_holders, dl_i, dl_tried, dl_size, dl_received, dl_dest>>
  /\ UNCHANGED notDl

\* The tracker names holders; the list is shuffled and the loop begins.
DlQueryHolders(list) ==
  /\ dl_pc = "start"
  /\ dl_holders' = list
  /\ dl_i' = 1
  /\ dl_pc' = "loop"
  /\ UNCHANGED <<dl_tried, dl_size, dl_received, dl_dest, dl_out>>
  /\ UNCHANGED notDl

\* The loop reaches an entry that does not parse: ValueError, not caught.
DlBadHolder ==
  /\ dl_pc = "loop"
  /\ dl_i <= Len(dl_holders)
  /\ ~Parses(dl_holders[dl_i])
  /\ dl_pc' = "raised"
  /\ UNCHANGED <<dl_holders, dl_i, dl_tried, dl_size, dl_received, dl_dest, dl_out>>
  /\ UNCHANGED notDl

\* The loop reaches the peer's own entry: it is skipped.
DlSkipSelf ==
  /\ dl_pc = "loop"
  /\ dl_i <= Len(dl_holders)
  /\ Parses(dl_holders[dl_i])
  /\ dl_holders[dl_i] = SelfId
  /\ dl_tried' = Append(dl_tried,
       [holder |-> dl_holders[dl_i], reply |-> "SKIP", end |-> "self"])
  /\ dl_out' = Append(dl_out, SelfSkipped)
  /\ dl_i' = dl_i + 1
  /\ UNCHANGED <<dl_pc, dl_holders, dl_size, dl_received, dl_dest>>
  /\ UNCHANGED notDl

\* One holder is contacted: connect, send GET, receive the reply. The variant
\* in which an ERROR reply ends the whole download comes first.
DlAttemptErrorFatal(kind, size) ==
  /\ dl_pc = "loop"
  /\ dl_i <= Len(dl_holders)
  /\ Parses(dl_holders[dl_i])
  /\ dl_holders[dl_i] # SelfId
  /\ kind = "FILE_INFO" \/ size = 0
  /\ LET holder == dl_holders[dl_i] IN
       CASE kind = "ERROR" ->
              /\ dl_tried' = Append(dl_tried,
                   [holder |-> holder, reply |-> kind, end |-> kind])
              /\ dl_out' = Append(Append(dl_out, ReportOf(kind)), AllFailed)
              /\ dl_pc' = "done"
              /\ UNCHANGED <<dl_i, dl_size, dl_received, dl_dest>>
         [] kind \in {"OSError", "None", "OTHER"} ->
              /\ dl_tried' = Append(dl_tried,
                   [holder |-> holder, reply |-> kind, end |-> kind])
              /\ dl_out' = Append(dl_out, ReportOf(kind))
              /\ dl_i' = dl_i + 1
              /\ UNCHANGED <<dl_pc, dl_size, dl_received, dl_dest>>
         [] kind \in RaisingKinds ->
              /\ dl_tried' = Append(dl_tried,
                   [holder |-> holder, reply |-> kind, end |-> "raised"])
              /\ dl_pc' = "raised"
              /\ UNCHANGED <<dl_i, dl_size, dl_received, dl_dest, dl_out>>
         [] kind = "FILE_INFO" ->
              /\ dl_size' = size
              /\ dl_received' = 0
              /\ dl_dest' = OpenWb(dl_dest)
              /\ IF size = 0
                 THEN /\ dl_tried' = Append(dl_tried,
                           [holder |-> holder, reply |-> kind,
                            end |-> BodyEnd(0, size)])
                      /\ dl_out' = Append(dl_out, Finish(0, size))
                      /\ dl_pc' = "done"
                 ELSE /\ dl_tried' = Append(dl_tried,
                           [holder |-> holder, reply |-> kind, end |-> "body"])
                      /\ dl_out' = dl_out
                      /\ dl_pc' = "body"
              /\ UNCHANGED dl_i
  /\ UNCHANGED dl_holders
  /\ UNCHANGED notDl

\* One holder is contacted: connect, send GET, receive the reply. OSError,
\* no reply, ERROR and a message of another kind continue with the next
\* holder; a payload that does not parse, or FILE_INFO without "size",
\* raises out of download; FILE_INFO opens the destination and starts the
\* body transfer, which is over at once if the declared size is 0.
DlAttempt(kind, size) ==
  /\ dl_pc = "loop"
  /\ dl_i <= Len(dl_holders)
  /\ Parses(dl_holders[dl_i])
  /\ dl_holders[dl_i] # SelfId
  /\ kind = "FILE_INFO" \/ size = 0
  /\ LET holder == dl_holders[dl_i] IN
       CASE kind \in {"OSError", "None", "ERROR", "OTHER"} ->
              /\ dl_tried' = Append(dl_tried,
                   [holder |-> holder, reply |-> kind, end |-> kind])
              /\ dl_out' = Append(dl_out, ReportOf(kind))
              /\ dl_i' = dl_i + 1
              /\ UNCHANGED <<dl_pc, dl_size, dl_received, dl_dest>>
         [] kind \in RaisingKinds ->
              /\ dl_tried' = Append(dl_tried,
                   [holder |-> holder, reply |-> kind, end |-> "raised"])
              /\ dl_pc' = "raised"
              /\ UNCHANGED <<dl_i, dl_size, dl_received, dl_dest, dl_out>>
         [] kind = "FILE_INFO" ->
              /\ dl_size' = size
              /\ dl_received' = 0
              /\ dl_dest' = OpenWb(dl_dest)
              /\ IF size = 0
                 THEN /\ dl_tried' = Append(dl_tried,
                           [holder |-> holder, reply |-> kind,
                            end |-> BodyEnd(0, size)])
                      /\ dl_out' = Append(dl_out, Finish(0, size))
                      /\ dl_pc' = "done"
                 ELSE /\ dl_tried' = Append(dl_tried,
                           [holder |-> holder, reply |-> kind, end |-> "body"])
                      /\ dl_out' = dl_out
                      /\ dl_pc' = "body"
              /\ UNCHANGED dl_i
  /\ UNCHANGED dl_holders
  /\ UNCHANGED notDl

\* s.recv(BUF) returns n bytes, which are written to the destination; when
\* the count reaches the declared size the loop ends, the result is
\* printed and download returns.
DlRecvChunk(n) ==
  /\ dl_pc = "body"
  /\ dl_received < dl_size
  /\ dl_dest' = dl_dest \o Copies(n, dl_holders[dl_i])
  /\ dl_received' = dl_received + n
  /\ IF dl_received + n < dl_size
     THEN UNCHANGED <<dl_pc, dl_tried, dl_out>>
     ELSE /\ dl_tried' = [dl_tried EXCEPT ![Len(dl_tried)].end =
                            BodyEnd(dl_received + n, dl_size)]
          /\ dl_out' = Append(dl_out, Finish(dl_received + n, dl_size))
          /\ dl_pc' = "done"
  /\ UNCHANGED <<dl_holders, dl_i, dl_size>>
  /\ UNCHANGED notDl

\* The variant of end-of-stream in which a short body fails over to the
\* next holder.
DlRecvEofFailover ==
  /\ dl_pc = "body"
  /\ dl_received < dl_size
  /\ dl_tried' = [dl_tried EXCEPT ![Len(dl_tried)].end =
                    BodyEnd(dl_received, dl_size)]
  /\ dl_out' = Append(dl_out, Finish(dl_received, dl_size))
  /\ dl_i' = dl_i + 1
  /\ dl_pc' = "loop"
  /\ UNCHANGED <<dl_holders, dl_size, dl_received, dl_dest>>
  /\ UNCHANGED notDl

\* s.recv(BUF) returns b'': the holder's connection is at end-of-stream. The
\* loop breaks, the result is printed and download returns.
DlRecvEof ==
  /\ dl_pc = "body"
  /\ dl_received < dl_size
  /\ dl_tried' = [dl_tried EXCEPT ![Len(dl_tried)].end =
                    BodyEnd(dl_received, dl_size)]
  /\ dl_out' = Append(dl_out, Finish(dl_received, dl_size))
  /\ dl_pc' = "done"
  /\ UNCHANGED <<dl_holders, dl_i, dl_size, dl_received, dl_dest>>
  /\ UNCHANGED notDl

\* s.recv(BUF) or f.write raises OSError (timeout, reset, disk): the error
\* is printed and the loop continues with the next holder; what was written
\* stays in the destination file.
DlRecvError ==
  /\ dl_pc = "body"
  /\ dl_received < dl_size
  /\ dl_tried' = [dl_tried EXCEPT ![Len(dl_tried)].end = "body_error"]
  /\ dl_out' = Append(dl_out, ConnError)
  /\ dl_i' = dl_i + 1
  /\ dl_pc' = "loop"
  /\ UNCHANGED <<dl_holders, dl_size, dl_received, dl_dest>>
  /\ UNCHANGED notDl

\* The loop has gone through the whole list.
DlExhausted ==
  /\ dl_pc = "loop"
  /\ dl_i > Len(dl_holders)
  /\ dl_out' = Append(dl_out, AllFailed)
  /\ dl_pc' = "done"
  /\ UNCHANGED <<dl_holders, dl_i, dl_tried, dl_size, dl_received, dl_dest>>
  /\ UNCHANGED notDl

(***************************************************************************)
(* Part 4 - the peer's download server (src/peer.py, _handle_get)          *)
(***************************************************************************)

Min(a, b) == IF a < b THEN a ELSE b

GetIdle ==
  /\ get_pc = "accept"
  /\ get_reply = ""
  /\ get_size = 0
  /\ get_sent = 0

\* The file the connection asks for and the concurrent download writes.
ShareFile == "a.txt"

\* The share folder without the file.
ShareEmpty ==
  /\ sh_exists = FALSE
  /\ sh_len = 0
  /\ sh_writing = FALSE

\* The first message of the connection is received and answered: nothing
\* or a message that is no GET closes the connection; a payload that does
\* not parse raises in the handler thread; a GET for a file that is not
\* there is answered ERROR FILE_NOT_FOUND; a GET for a file that is there
\* is answered FILE_INFO with the size path.stat() gives at that moment.
GetRequest(req) ==
  /\ get_pc = "accept"
  /\ CASE req \in {"None", "OTHER"} ->
            /\ get_pc' = "closed"
            /\ UNCHANGED <<get_reply, get_size>>
       [] req = "MALFORMED" ->
            /\ get_pc' = "raised"
            /\ UNCHANGED <<get_reply, get_size>>
       [] req = "GET" /\ ~sh_exists ->
            /\ get_reply' = "ERROR"
            /\ get_pc' = "closed"
            /\ UNCHANGED get_size
       [] req = "GET" /\ sh_exists ->
            /\ get_reply' = "FILE_INFO"
            /\ get_size' = sh_len
            /\ get_pc' = "body"
  /\ UNCHANGED <<get_sent, sh_exists, sh_len, sh_writing>>
  /\ UNCHANGED notGet

\* f.read(BUF) returns the next bytes the file has now, at most a block of
\* them, and conn.sendall writes them to the connection.
GetSendChunk ==
  /\ get_pc = "body"
  /\ sh_len > get_sent
  /\ get_sent' = get_sent + Min(MaxChunk, sh_len - get_sent)
  /\ UNCHANGED <<get_pc, get_reply, get_size, sh_exists, sh_len, sh_writing>>
  /\ UNCHANGED notGet

\* f.read(BUF) returns b'': the read position is at or past the end the
\* file has now. The loop ends and the connection is closed.
GetClose ==
  /\ get_pc = "body"
  /\ sh_len <= get_sent
  /\ get_pc' = "closed"
  /\ UNCHANGED <<get_reply, get_size, get_sent, sh_exists, sh_len, sh_writing>>
  /\ UNCHANGED notGet

\* The next connection is accepted.
GetAccept ==
  /\ get_pc \in {"closed", "raised"}
  /\ get_pc' = "accept"
  /\ get_reply' = ""
  /\ get_size' = 0
  /\ get_sent' = 0
  /\ UNCHANGED <<sh_exists, sh_len, sh_writing>>
  /\ UNCHANGED notGet

\* A download running on this peer for the same file name opens its
\* destination, which is the file of the share folder: open(dest, 'wb')
\* creates or truncates it.
ShareOpenWb ==
  /\ ~sh_writing
  /\ sh_exists' = TRUE
  /\ sh_len' = 0
  /\ sh_writing' = TRUE
  /\ UNCHANGED <<get_pc, get_reply, get_size, get_sent>>
  /\ UNCHANGED notGet

\* That download writes a chunk it received: f.write(chunk).
ShareWrite(n) ==
  /\ sh_writing
  /\ sh_len + n <= MaxSize
  /\ sh_len' = sh_len + n
  /\ UNCHANGED <<get_pc, get_reply, get_size, get_sent, sh_exists, sh_writing>>
  /\ UNCHANGED notGet

\* That download leaves its with block: the file is closed.
ShareCloseWriter ==
  /\ sh_writing
  /\ sh_writing' = FALSE
  /\ UNCHANGED <<get_pc, get_reply, get_size, get_sent, sh_exists, sh_len>>
  /\ UNCHANGED notGet

(***************************************************************************)
(* Part 5 - the start of download and the tracker (src/peer.py 148-159,    *)
(* src/edge.py 58-74)                                                      *)
(***************************************************************************)

\* The downloading peer as the tracker sees it.
DqHost == "10.0.0.1"
DqPort == 7001
DqId == PeerStr(DqHost, DqPort)

DqIdle == dq = [pc |-> "start", hb_ok |-> FALSE, files |-> {}, filename |-> ""]

\* self._send_heartbeat() at the top of download: the folder is listed and
\* the heartbeat is written to a connection of its own, which is closed at
\* once. What was written waits in the tracker's socket until the handler
\* thread of that connection reads it.
DqSendHeartbeat(files) ==
  /\ dq.pc = "start"
  /\ dq' = [pc |-> "heartbeat_sent", hb_ok |-> TRUE, files |-> files, filename |-> ""]
  /\ UNCHANGED notDq

\* The same call when the tracker cannot be reached: the failure is printed
\* and download goes on.
DqHeartbeatFails ==
  /\ dq.pc = "start"
  /\ dq' = [pc |-> "heartbeat_failed", hb_ok |-> FALSE, files |-> {}, filename |-> ""]
  /\ UNCHANGED notDq

\* download opens a second connection and sends QUERY on it.
DqSendQuery(fname) ==
  /\ dq.pc \in {"heartbeat_sent", "heartbeat_failed"}
  /\ dq' = [dq EXCEPT !.pc = "query_sent", !.filename = fname]
  /\ UNCHANGED notDq

\* download is over (whatever its outcome) and can be called again.
DqReturn ==
  /\ dq.pc = "query_sent"
  /\ dq' = [pc |-> "start", hb_ok |-> FALSE, files |-> {}, filename |-> ""]
  /\ UNCHANGED notDq

\* The heartbeats of the downloading peer.
DqHeartbeats == {m \in HeartbeatMsgs : m.port = DqPort /\ m.host = DqHost}

\* _send_heartbeat of the peer of Part 4: files = the files of the folder,
\* whatever state they are in.
ShareHeartbeat ==
  /\ sent_files' = IF sh_exists THEN {ShareFile} ELSE {}
  /\ sent_files' # sent_files
  /\ UNCHANGED notSent

Init ==
  /\ TrackerInit /\ ChanIdle /\ DlIdle /\ dl_seen_as = SelfId /\ GetIdle /\ ShareEmpty
  /\ DqIdle /\ sent_files = {}

\* The main specification: clients on both hosts, all reporting the first
\* download port and sending no field the tracker ignores; thread w1 serves
\* the heartbeat connections, thread w2 the QUERY and CATALOG connections.
SpecHeartbeats == {m \in HeartbeatMsgs : m.port = 7001 /\ m.host = "10.0.0.1"}

Next ==
  \/ \E h \in Hosts, m \in SpecHeartbeats : HandleHeartbeat("w1", h, m)
  \/ WriteCatalogRead("w1")
  \/ WriteCatalogFile("w1")
  \/ \E m \in QueryMsgs : HandleQuery("w2", m)
  \/ SendQueryReply("w2")
  \/ CatalogBegin("w2")
  \/ CatalogEnd("w2")
  \/ JanitorSweep
  \/ ClearCatalog
  \/ Tick

Spec == Init /\ [][Next]_vars

\* A second specification for the identity of the reporting peer: clients on
\* both hosts report either download port and may carry either host in the
\* field the tracker ignores; one handler thread, one file name, one
\* checksums value.
PortHeartbeats ==
  {m \in HeartbeatMsgs : m.files \subseteq {"a.txt"} /\ m.checksums = "ck1"}

PortNext ==
  \/ \E h \in Hosts, m \in PortHeartbeats : HandleHeartbeat("w1", h, m)
  \/ WriteCatalogRead("w1")
  \/ WriteCatalogFile("w1")
  \/ JanitorSweep
  \/ Tick

PortSpec == Init /\ [][PortNext]_vars

\* A third specification, with the fairness the tracker's threads have: the
\* clock advances, a handler thread that is not blocked keeps running, and
\* the janitor thread gets the lock if the lock is free again and again.
\* What clients do (send a heartbeat, send CATALOG, read what the tracker
\* sends, quit) is not fair.
LiveHeartbeats ==
  {m \in HeartbeatMsgs : /\ m.port = 7001 /\ m.host = "10.0.0.1"
                         /\ m.checksums = "ck1" /\ m.files \subseteq {"a.txt"}}

LiveNext ==
  \/ \E h \in Hosts, m \in LiveHeartbeats : HandleHeartbeat("w1", h, m)
  \/ WriteCatalogRead("w1")
  \/ WriteCatalogFile("w1")
  \/ CatalogBegin("w2")
  \/ CatalogEnd("w2")
  \/ JanitorSweep
  \/ Tick
  \/ \E h \in Hosts : PeerQuit(PeerStr(h, 7001))

LiveSpec ==
  /\ Init
  /\ [][LiveNext]_vars
  /\ WF_vars(Tick)
  /\ SF_vars(JanitorSweep)
  /\ WF_vars(WriteCatalogRead("w1"))
  /\ WF_vars(WriteCatalogFile("w1"))

\* The specification of one connection of the message channel.
ChanNext ==
  \/ \E obj \in Messages : SendJson(obj)
  \/ CloseSender
  \/ \E part \in CutFrames : SendCut(part)
  \/ RecvJson

ChanSpec == Init /\ [][ChanNext]_vars

\* The specification of one download invocation; what the tracker and the
\* holders answer is the environment's choice.
DlNext ==
  \/ \E result \in {"OSError", "INVALID", "EMPTY", "MALFORMED"} : DlQueryFails(result)
  \/ \E list \in HolderLists : DlQueryHolders(list)
  \/ DlBadHolder
  \/ DlSkipSelf
  \/ \E kind \in ReplyKinds \cup RaisingKinds, size \in 0..MaxSize : DlAttempt(kind, size)
  \/ \E n \in 1..MaxChunk : DlRecvChunk(n)
  \/ DlRecvEof
  \/ DlRecvError
  \/ DlExhausted

DlSpec == Init /\ [][DlNext]_vars

\* The host the tracker can have observed for this peer, with the peer's
\* download port: the address the peer resolves for its own host name, or
\* another address of the same machine (another interface, a NAT address,
\* or the host name resolving to a loopback address).
ObservedIds == {SelfId, "10.0.0.2:6000"}

\* The download specification with the tracker's record of this peer left
\* to the environment.
SelfInit ==
  /\ TrackerInit /\ ChanIdle /\ DlIdle /\ GetIdle /\ ShareEmpty
  /\ DqIdle /\ sent_files = {}
  /\ dl_seen_as \in ObservedIds

SelfSpec == SelfInit /\ [][DlNext]_vars

\* A specification of the heartbeat handler alone: clients on both hosts
\* send heartbeats one after the other, with any files and checksums.
MergeNext ==
  \/ \E h \in Hosts, m \in SpecHeartbeats : HandleHeartbeat("w1", h, m)
  \/ WriteCatalogRead("w1")
  \/ WriteCatalogFile("w1")

MergeSpec == Init /\ [][MergeNext]_vars

\* The specification of the download server: one connection after the
\* other, while downloads of this peer write the file that is asked for;
\* the file is absent at the start or there with any length.
GetInit ==
  /\ TrackerInit /\ ChanIdle /\ DlIdle /\ dl_seen_as = SelfId /\ GetIdle
  /\ DqIdle /\ sent_files = {}
  /\ sh_writing = FALSE
  /\ sh_exists \in BOOLEAN
  /\ sh_len \in 0..MaxSize
  /\ ~sh_exists => sh_len = 0

GetNext ==
  \/ \E req \in {"None", "OTHER", "MALFORMED", "GET"} : GetRequest(req)
  \/ GetSendChunk
  \/ GetClose
  \/ GetAccept
  \/ ShareOpenWb
  \/ \E n \in 1..MaxChunk : ShareWrite(n)
  \/ ShareCloseWriter

GetSpec == GetInit /\ [][GetNext]_vars

\* The same with the peer's heartbeats: the keep-alive thread lists the
\* folder at any time.
ShareNext ==
  \/ \E req \in {"None", "OTHER", "MALFORMED", "GET"} : GetRequest(req)
  \/ GetSendChunk
  \/ GetClose
  \/ GetAccept
  \/ ShareOpenWb
  \/ \E n \in 1..MaxChunk : ShareWrite(n)
  \/ ShareCloseWriter
  \/ ShareHeartbeat

ShareSpec == GetInit /\ [][ShareNext]_vars

\* The specification of the start of download against the tracker. Each
\* connection has its own handler thread: w1 serves the connections that
\* carry the peer's heartbeats, w2 the one that carries its QUERY. A
\* heartbeat is read by its handler at any time after it was sent; before
\* download starts the peer's periodic heartbeats arrive, with whatever
\* the folder held then.
ServeDqHeartbeat(m) ==
  /\ dq.pc = "start" \/ (dq.hb_ok /\ m.files = dq.files)
  /\ HandleHeartbeat("w1", DqHost, m)

\* The QUERY is read by its handler at any time after it was sent.
ServeDqQuery ==
  /\ dq.pc = "query_sent"
  /\ HandleQuery("w2", [type |-> "QUERY", filename |-> dq.filename])

FreshNext ==
  \/ \E files \in SUBSET Files : DqSendHeartbeat(files)
  \/ DqHeartbeatFails
  \/ \E fname \in Files : DqSendQuery(fname)
  \/ DqReturn
  \/ \E m \in DqHeartbeats : ServeDqHeartbeat(m)
  \/ WriteCatalogRead("w1")
  \/ WriteCatalogFile("w1")
  \/ ServeDqQuery
  \/ SendQueryReply("w2")

FreshSpec == Init /\ [][FreshNext]_vars

(***************************************************************************)
(* Properties of the tracker                                               *)
(***************************************************************************)

\* C1: when a heartbeat of a peer is merged, the names under which that peer
\* is listed as holder are exactly the files of that heartbeat, whatever it
\* reported before.
C1_LatestReportOnly ==
  [][\A w \in Workers :
       (pc[w] = "idle" /\ pc'[w] = "write_catalog")
         => HeldBy(files_index', PeerStr(hb'[w].cli, hb'[w].port)) = hb'[w].files]_vars

\* Only one peer has ever reported, a.txt was written to the catalog from its
\* earlier report, and its latest heartbeat, just merged, lists only b.
C1_Witness ==
  \E w \in Workers, p \in PeerIds :
    /\ pc[w] = "write_catalog"
    /\ DOMAIN peer_checksums = {p}
    /\ p \in DOMAIN peers_last_seen /\ peers_last_seen[p] = 0
    /\ "a.txt" \in CatalogNames(catalog_txt)
    /\ HeldBy(files_index, p) = {"b"}
    /\ lock = "free"

\* C2: every key of files_index maps to a non-empty holder set.
C2_NoEmptyEntry == \A f \in DOMAIN files_index : files_index[f] # {}

\* a.txt was indexed (the catalog still lists it) and has been pruned, while
\* b is still held.
C2_Witness ==
  /\ "a.txt" \in CatalogNames(catalog_txt)
  /\ "a.txt" \notin DOMAIN files_index
  /\ "b" \in DOMAIN files_index
  /\ peers_last_seen # NoFn

\* C3: a query for a name that is not a key of files_index is answered with
\* a QUERY_REPLY with no holders and changes none of the three maps.
C3_QueryAbsent ==
  [][\A w \in Workers, m \in QueryMsgs :
       (pc[w] = "idle" /\ pc'[w] = "send_reply" /\ HandleQuery(w, m)
          /\ m.filename \notin DOMAIN files_index)
         => /\ QueryReply(w)' = [type |-> "QUERY_REPLY", holders |-> {}]
            /\ UNCHANGED <<files_index, peers_last_seen, peer_checksums>>]_vars

\* A reply with no holders is about to be sent for a name that is not
\* indexed, while other names are.
C3_Witness ==
  \E w \in Workers :
    /\ pc[w] = "send_reply"
    /\ query[w].filename \notin DOMAIN files_index
    /\ query[w].holders = {}
    /\ files_index # NoFn

\* C5: after a sweep, a second sweep at the same cutoff finds no dead peer,
\* changes neither files_index nor peers_last_seen (it never touches
\* peer_checksums) and does not rewrite the catalog.
C5_SweepIdempotent ==
  [][JanitorSweep =>
       LET dead2 == Dead(peers_last_seen', Timeout) IN
       /\ Del(peers_last_seen', dead2) = peers_last_seen'
       /\ SweepIndex(files_index', dead2) = files_index'
       /\ ~SweepChanged(files_index', dead2)
       /\ peer_checksums' = peer_checksums]_vars

\* Two peers have reported and a sweep has evicted both.
C5_Witness ==
  /\ Cardinality(DOMAIN peer_checksums) = 2
  /\ peers_last_seen = NoFn
  /\ files_index = NoFn

\* C6: a heartbeat on a connection from host h changes the holder-set
\* membership, the timestamp and the checksums of no peer id other than the
\* one formed from h and the message's port.
C6_OnlyReportingPeer ==
  [][\A w \in Workers :
       (pc[w] = "idle" /\ pc'[w] = "write_catalog")
         => \A q \in PeerIds \ {PeerStr(hb'[w].cli, hb'[w].port)} :
              /\ HeldBy(files_index', q) = HeldBy(files_index, q)
              /\ (q \in DOMAIN peers_last_seen') = (q \in DOMAIN peers_last_seen)
              /\ (q \in DOMAIN peers_last_seen
                    => peers_last_seen'[q] = peers_last_seen[q])
              /\ (q \in DOMAIN peer_checksums') = (q \in DOMAIN peer_checksums)
              /\ (q \in DOMAIN peer_checksums
                    => peer_checksums'[q] = peer_checksums[q])]_vars

\* A heartbeat with no files from 10.0.0.1 with port 7002 has just been
\* merged while the same host's other port and the other host's same port
\* are tracked with older timestamps.
C6_Witness ==
  /\ pc["w1"] = "write_catalog"
  /\ DOMAIN peers_last_seen =
       {<<"10.0.0.1", 7001>>, <<"10.0.0.1", 7002>>, <<"10.0.0.2", 7002>>}
  /\ peers_last_seen[<<"10.0.0.1", 7002>>] = 0
  /\ peers_last_seen[<<"10.0.0.1", 7001>>] = 1
  /\ peers_last_seen[<<"10.0.0.2", 7002>>] = 2
  /\ HeldBy(files_index, <<"10.0.0.1", 7001>>) = {"a.txt"}
  /\ HeldBy(files_index, <<"10.0.0.1", 7002>>) = {}
  /\ hb["w1"] = [cli |-> "10.0.0.1", port |-> 7002, files |-> {}]

\* C4: a peer that has had a heartbeat accepted and sends no further one is
\* eventually absent from peers_last_seen and from every holder set, and
\* stays so (every later query lists it for no name).
C4_SilentPeerEvicted ==
  \A x \in PeerIds :
    (x \in quiet /\ x \in DOMAIN peers_last_seen)
      ~> [](/\ x \notin DOMAIN peers_last_seen
            /\ \A f \in QueryNames : x \notin Holders(files_index, f))

(***************************************************************************)
(* Properties of the message channel                                       *)
(***************************************************************************)

\* C7: the i-th recv_json call returns the i-th message sent, equal to the
\* original; a call returns "no message" only as the last one, after the
\* sender has closed and every complete frame has been returned; no call
\* raises an error.
C7_RoundTripInOrder ==
  \A i \in 1..Len(ch_received) :
    IF ch_received[i] = None
    THEN i = Len(ch_received) /\ ch_closed /\ i = Len(ch_sent) + 1
    ELSE i <= Len(ch_sent) /\ ch_received[i] = ch_sent[i]

\* Two messages, one with a backslash followed by n and one with a line
\* feed, were received as sent, and the call after them returned "no
\* message".
C7_Witness ==
  /\ Len(ch_received) = 3
  /\ ch_received[1] = [type |-> "QUERY", filename |-> <<BSL, "n">>]
  /\ ch_received[2] = [type |-> "QUERY", filename |-> <<NL>>]
  /\ ch_received[3] = None
  /\ ch_sent = <<ch_received[1], ch_received[2]>>

(***************************************************************************)
(* Properties of the download                                              *)
(***************************************************************************)

\* C8: an attempt that ends because the holder is unreachable or times out,
\* closes without replying, replies ERROR or replies with a message of
\* another kind leaves the download in its loop at the next holder of the
\* list, without a result reported; and overall failure is reported only
\* when every holder of the list, in order, has been tried or skipped.
C8_FailedAttemptAdvances ==
  [][/\ (/\ Len(dl_tried') = Len(dl_tried) + 1
         /\ dl_tried'[Len(dl_tried')].end \in {"OSError", "None", "ERROR", "OTHER"})
        => /\ dl_pc' = "loop"
           /\ dl_i' = dl_i + 1
           /\ dl_holders' = dl_holders
           /\ Range(dl_out') \cap {AllFailed, DownloadOk, Incomplete} = {}
     /\ AllFailed \in Range(dl_out')
        => /\ Len(dl_tried') = Len(dl_holders')
           /\ \A k \in DOMAIN dl_tried' :
                /\ dl_tried'[k].holder = dl_holders'[k]
                /\ dl_tried'[k].end \in
                     {"self", "OSError", "None", "ERROR", "OTHER", "body_error"}]_vars

\* Overall failure was reported after three holders were gone through: one
\* that closed without replying, one that replied ERROR and one that replied
\* with a message of another kind.
C8_Witness ==
  /\ dl_pc = "done"
  /\ dl_out[Len(dl_out)] = AllFailed
  /\ Len(dl_holders) = 3
  /\ {dl_tried[k].end : k \in DOMAIN dl_tried} = {"None", "ERROR", "OTHER"}

\* C9: once a holder that replied FILE_INFO has reached end-of-stream short
\* of the declared size, the download has reported an incomplete download
\* as its last word and has returned; that holder is the last one
\* contacted, and neither success nor overall failure is reported.
C9_ShortBodyEndsDownload ==
  \A k \in DOMAIN dl_tried :
    dl_tried[k].end = "eof_short"
      => /\ dl_tried[k].reply = "FILE_INFO"
         /\ dl_received < dl_size
         /\ k = Len(dl_tried)
         /\ dl_i = k
         /\ dl_pc = "done"
         /\ dl_out[Len(dl_out)] = Incomplete
         /\ DownloadOk \notin Range(dl_out)
         /\ AllFailed \notin Range(dl_out)

\* The first holder of a list of three declared two bytes and closed after
\* one; the two other holders were never contacted.
C9_Witness ==
  /\ Len(dl_holders) = 3
  /\ Len(dl_tried) = 1
  /\ dl_tried[1].end = "eof_short"
  /\ dl_size = 2
  /\ dl_received = 1
  /\ SelfId \notin Range(dl_holders)

\* C10 (as stated): success is reported at most once, and only when the
\* bytes received from one holder number what that holder declared; the
\* bytes stored are that holder's only; no holder is contacted after one
\* has replied FILE_INFO.
C10_NoContactAfterFileInfo ==
  /\ Cardinality({j \in DOMAIN dl_out : dl_out[j] = DownloadOk}) <= 1
  /\ DownloadOk \in Range(dl_out)
     => /\ dl_tried[Len(dl_tried)].reply = "FILE_INFO"
        /\ dl_received = dl_size
        /\ dl_dest = Copies(dl_size, dl_tried[Len(dl_tried)].holder)
  /\ \A k \in DOMAIN dl_tried :
       dl_tried[k].reply = "FILE_INFO" => k = Len(dl_tried)

\* C10 (amended): success is reported at most once, and only when the bytes
\* received from one holder number what that holder declared; the bytes
\* stored are then that holder's only; a holder is contacted after one
\* that replied FILE_INFO only if the body transfer from that one was cut
\* by a transport error.
C10_SuccessFromOneHolder ==
  /\ Cardinality({j \in DOMAIN dl_out : dl_out[j] = DownloadOk}) <= 1
  /\ DownloadOk \in Range(dl_out)
     => /\ dl_tried[Len(dl_tried)].reply = "FILE_INFO"
        /\ dl_received = dl_size
        /\ dl_dest = Copies(dl_size, dl_tried[Len(dl_tried)].holder)
  /\ \A k \in DOMAIN dl_tried :
       (dl_tried[k].reply = "FILE_INFO" /\ k < Len(dl_tried))
         => dl_tried[k].end = "body_error"

\* The first holder declared two bytes and its connection was reset after
\* one; the second holder declared two bytes and delivered them, and success
\* was reported.
C10_Witness ==
  /\ Len(dl_tried) = 2
  /\ dl_tried[1].end = "body_error"
  /\ dl_tried[2].end = "complete"
  /\ dl_size = 2
  /\ dl_out[Len(dl_out)] = DownloadOk

\* C11: whatever ends the download in its query phase (no connection to the
\* tracker; a reply that is missing, does not parse or is no QUERY_REPLY; an
\* empty holder list) leaves it returned with exactly one outcome reported,
\* no holder contacted and no error raised.
C11_QueryPhaseReported ==
  [][(dl_pc = "start" /\ dl_pc' # "start" /\ dl_pc' # "loop")
       => /\ dl_pc' = "done"
          /\ Len(dl_out') = 1
          /\ dl_out'[1] \in {EdgeUnreachable, InvalidReply, NotFound}
          /\ dl_tried' = <<>>]_vars

\* C13: from the index and the checksums the tracker has, merging the
\* heartbeat of one peer and then that of another peer gives the same index
\* and the same checksums as merging them in the other order, whatever
\* files and checksums the two report.
C13_MergesCommute ==
  \A p, q \in PeerIds :
    p # q =>
      /\ \A Fp, Fq \in SUBSET Files :
            MergeHeartbeat(MergeHeartbeat(files_index, p, Fp), q, Fq)
              = MergeHeartbeat(MergeHeartbeat(files_index, q, Fq), p, Fp)
      /\ \A cp, cq \in Checksums :
            Put(Put(peer_checksums, p, cp), q, cq)
              = Put(Put(peer_checksums, q, cq), p, cp)

\* Both peers hold a.txt and have different checksums on record; a
\* heartbeat of the first with no files and one of the second with b alone
\* leave, in either order, b held by the second peer and nothing else.
C13_Witness ==
  LET p == PeerStr("10.0.0.1", 7001)
      q == PeerStr("10.0.0.2", 7001)
  IN  /\ DOMAIN files_index = {"a.txt"}
      /\ files_index["a.txt"] = {p, q}
      /\ DOMAIN peer_checksums = {p, q}
      /\ peer_checksums[p] # peer_checksums[q]
      /\ MergeHeartbeat(MergeHeartbeat(files_index, p, {}), q, {"b"})
            = [f \in {"b"} |-> {q}]
      /\ MergeHeartbeat(MergeHeartbeat(files_index, q, {"b"}), p, {})
            = [f \in {"b"} |-> {q}]

\* C14: a sweep removes a peer only if its timestamp is older than now
\* minus the timeout; a peer whose last heartbeat is no older than that,
\* the cutoff itself included, keeps its timestamp and every holder-set
\* membership through the sweep.
C14_SweepSparesLivePeers ==
  [][JanitorSweep =>
       \A p \in DOMAIN peers_last_seen :
         /\ p \notin DOMAIN peers_last_seen' => peers_last_seen[p] > Timeout
         /\ peers_last_seen[p] <= Timeout
              => /\ p \in DOMAIN peers_last_seen'
                 /\ peers_last_seen'[p] = peers_last_seen[p]
                 /\ HeldBy(files_index', p) = HeldBy(files_index, p)]_vars

\* A sweep has evicted one peer; the other, whose heartbeat is exactly
\* the timeout old, is still listed with its file.
C14_Witness ==
  LET p == PeerStr("10.0.0.1", 7001)
  IN  /\ Cardinality(DOMAIN peer_checksums) = 2
      /\ DOMAIN peers_last_seen = {p}
      /\ peers_last_seen[p] = Timeout
      /\ HeldBy(files_index, p) = {"a.txt"}

\* C15: a sweep reports a mutation (its `changed` flag) exactly when it
\* has removed a peer from peers_last_seen or from a holder set, a peer
\* that had reported no files included.
C15_ChangedIffMutated ==
  [][JanitorSweep =>
       (SweepChanged(files_index, Dead(peers_last_seen, Timeout))
          <=> (peers_last_seen' # peers_last_seen \/ files_index' # files_index))]_vars

\* C16: right after _clear_catalog the index, the timestamps, the checksums
\* and catalog.txt are all empty.
C16_ClearEmptiesAll ==
  [][ClearCatalog =>
       /\ files_index' = NoFn
       /\ peers_last_seen' = NoFn
       /\ peer_checksums' = NoFn
       /\ CatalogNames(catalog_txt') = {}]_vars

\* C17: no worker holds the lock while it is at a network send or receive
\* on its client connection.
C17_NoLockAcrossNetwork ==
  \A w \in Workers :
    pc[w] \in {"send_reply", "catalog_send"} => lock # w

\* C18: every regeneration of catalog.txt by a handler, the read of the
\* index and the write of the file, runs while that handler holds the lock.
C18_SnapshotUnderLock ==
  [][\A w \in Workers :
       (WriteCatalogRead(w) \/ WriteCatalogFile(w)) => lock = w]_vars

\* C19: whenever no handler is between its merge and the end of its catalog
\* write (sweep and clear are single steps), the names in catalog.txt are
\* the keys of the index.
C19_SnapshotMatchesIndex ==
  (\A w \in Workers : pc[w] = "idle")
    => CatalogNames(catalog_txt) = DOMAIN files_index

(***************************************************************************)
(* Properties of the download server                                       *)
(***************************************************************************)

\* C12: when a connection that was answered FILE_INFO is closed, the raw
\* bytes written to it number what FILE_INFO declared, also while a
\* download of this peer writes the file; a connection answered ERROR, or
\* not answered because its first message was no GET, carries no bytes.
C12_DeclaredSizeIsSent ==
  /\ (get_pc = "closed" /\ get_reply = "FILE_INFO") => get_sent = get_size
  /\ get_reply # "FILE_INFO" => get_sent = 0

\* C20: every holder of the list that is this peer as the tracker recorded
\* it is skipped, never contacted.
C20_OwnIdSkipped ==
  \A k \in DOMAIN dl_tried :
    dl_tried[k].holder = dl_seen_as => dl_tried[k].end = "self"

\* C23: every peer that is in a holder set of the index has a timestamp
\* in peers_last_seen, so that a sweep can find it.
C23_HoldersHaveLastSeen ==
  \A f \in DOMAIN files_index : files_index[f] \subseteq DOMAIN peers_last_seen

\* Two peers have reported; a sweep has evicted one of them, and the other,
\* which holds both files, has its timestamp.
C23_Witness ==
  LET q == PeerStr("10.0.0.2", 7001)
  IN  /\ Cardinality(DOMAIN peer_checksums) = 2
      /\ DOMAIN peers_last_seen = {q}
      /\ DOMAIN files_index = Files
      /\ \A f \in Files : files_index[f] = {q}

\* C22: while a download of this peer has the file open for writing, no
\* heartbeat the peer builds lists the file and no GET for it is answered
\* FILE_INFO.
C22_UnfinishedFileHidden ==
  [][/\ (get_pc = "accept" /\ get_reply' = "FILE_INFO") => ~sh_writing
     /\ (ShareFile \in sent_files' /\ sent_files' # sent_files) => ~sh_writing]_vars

(***************************************************************************)
(* Properties of download against the tracker                              *)
(***************************************************************************)

\* C21: when the tracker computes the reply to the QUERY of a download
\* whose heartbeat was sent, that heartbeat is merged: the peer is listed
\* under exactly the files the heartbeat lists, and the reply names the
\* peer as holder only if the heartbeat lists the file asked for.
C21_HeartbeatMergedBeforeReply ==
  [][(/\ dq.pc = "query_sent"
      /\ dq.hb_ok
      /\ pc["w2"] = "idle"
      /\ pc'["w2"] = "send_reply")
       => /\ HeldBy(files_index, DqId) = dq.files
          /\ DqId \in query'["w2"].holders => dq.filename \in dq.files]_vars

====
